---- MODULE Spec2Model ----
(***************************************************************************)
(* Model of img-metadata.py: the GPS conversion get_gps_info, the metadata *)
(* assembler extract_metadata and the /extract endpoint.                   *)
(*                                                                         *)
(* Python values are modelled as follows.                                  *)
(*   - a dict is a function from its keys; {} is the empty function <<>>;  *)
(*   - a value whose Python type varies (int or None, str or None) is a    *)
(*     tagged record [t |-> type name, v |-> value];                       *)
(*   - a float that results from int/int and float/int divisions and float *)
(*     additions is the exact fraction <<n, d>> in lowest terms with d > 0 *)
(*     (the float is the rounding of that fraction);                       *)
(*   - the outcome of a call that may raise is [exc |-> name, v |-> value],*)
(*     exc = "" when the call returns.                                     *)
(***************************************************************************)
EXTENDS Integers, Sequences, FiniteSets, TLC

VARIABLES
    gps_pc,      \* "idle" | "called": position of a direct get_gps_info call
    gps_in,      \* the gps_ifd passed to get_gps_info
    gps_out,     \* outcome of get_gps_info(gps_in)
    pc,          \* position of the request / of extract_metadata
    entry,       \* "none" | "http" | "direct": who called extract_metadata
    upload,      \* the uploaded file: filename and contents
    image_file,  \* the stream handed to extract_metadata
    image,       \* what Image.open and the libraries yield for the stream
    metadata,    \* the dict extract_metadata builds
    reads,       \* number of file.read() calls of the endpoint
    calls,       \* number of extract_metadata invocations
    response     \* the endpoint's response

vars == <<gps_pc, gps_in, gps_out, pc, entry, upload, image_file, image,
          metadata, reads, calls, response>>

gpsVars == <<gps_pc, gps_in, gps_out>>
reqVars == <<pc, entry, upload, image_file, image, metadata, reads, calls, response>>

\* ------------------------------------------------------------------ bounds

\* largest denominator of the GPS rationals drawn as input
MaxDen == 2
\* largest byte length of an input file
MaxBytes == 2

\* ------------------------------------------------------------ Python values

PyNone == [t |-> "None", v |-> 0]
PyInt(i) == [t |-> "int", v |-> i]
PyStr(s) == [t |-> "str", v |-> s]
PyFloat(f) == [t |-> "float", v |-> f]
PyTuple(s) == [t |-> "tuple", v |-> s]
PyDict(d) == [t |-> "dict", v |-> d]
PyBytes(s) == [t |-> "bytes", v |-> s]

PyEq(a, b) == a.t = b.t /\ a.v = b.v

\* a str is the sequence of its pieces of text, a literal a single piece
Text(s) == <<s>>

Ok(v) == [exc |-> "", v |-> v]
Raise(e) == [exc |-> e, v |-> <<>>]

EmptyDict == <<>>

\* d[k] = v on a dict
DictSet(d, k, v) == [x \in DOMAIN d \cup {k} |-> IF x = k THEN v ELSE d[x]]

\* ------------------------------------------------------------- fractions

Abs(i) == IF i < 0 THEN -i ELSE i

RECURSIVE GCD(_, _)
GCD(a, b) == IF b = 0 THEN a ELSE GCD(b, a % b)

\* the fraction n/d (d # 0) in lowest terms with a positive denominator
Frac(n, d) ==
    LET s == IF d < 0 THEN -1 ELSE 1
        g == GCD(Abs(n), Abs(d))
    IN  <<(s * n) \div g, (s * d) \div g>>

FracAdd(a, b) == Frac(a[1] * b[2] + b[1] * a[2], a[2] * b[2])
FracNeg(a) == <<-a[1], a[2]>>
FracLeq(a, b) == a[1] * b[2] <= b[1] * a[2]

\* Python's int / int: true division, ZeroDivisionError on a zero divisor
IntDiv(n, d) == IF d = 0 THEN Raise("ZeroDivisionError") ELSE Ok(Frac(n, d))

\* Python's float / int with a non-zero literal divisor
FloatDivBy(f, k) == Frac(f[1], f[2] * k)

\* --------------------------------------------------------- get_gps_info

\* convert_to_degrees with the seconds divided by 60 instead of 3600
convert_to_degrees_Seconds60(value) ==
    LET dd == IntDiv(value[1][1], value[1][2])
        mm == IntDiv(value[2][1], value[2][2])
        ss == IntDiv(value[3][1], value[3][2])
    IN  IF dd.exc # "" THEN dd
        ELSE IF mm.exc # "" THEN mm
        ELSE IF ss.exc # "" THEN ss
        ELSE Ok(FracAdd(FracAdd(dd.v, FloatDivBy(mm.v, 60)), FloatDivBy(ss.v, 60)))

\* convert_to_degrees(value): d[0]/d[1] + m[0]/m[1]/60 + s[0]/s[1]/3600
convert_to_degrees(value) ==
    LET d == value[1]
        m == value[2]
        s == value[3]
        dd == IntDiv(d[1], d[2])
        mm == IntDiv(m[1], m[2])
        ss == IntDiv(s[1], s[2])
    IN  IF dd.exc # "" THEN dd
        ELSE IF mm.exc # "" THEN mm
        ELSE IF ss.exc # "" THEN ss
        ELSE Ok(FracAdd(FracAdd(dd.v, FloatDivBy(mm.v, 60)), FloatDivBy(ss.v, 3600)))

\* gps_ifd[k]: KeyError when the tag is not in the IFD
GpsGet(gps_ifd, k) == IF k \in DOMAIN gps_ifd THEN Ok(gps_ifd[k]) ELSE Raise("KeyError")

\* Signed without the negation for the S / W hemisphere
SignedWrong(gps_ifd, vtag, rtag, neg) ==
    LET raw == GpsGet(gps_ifd, vtag)
        deg == IF raw.exc # "" THEN raw ELSE convert_to_degrees(raw.v)
        ref == GpsGet(gps_ifd, rtag)
    IN  IF deg.exc # "" THEN deg
        ELSE IF ref.exc # "" THEN ref
        ELSE deg

\* one coordinate: convert_to_degrees(gps_ifd[vtag]), negated when
\* gps_ifd[rtag] == neg
Signed(gps_ifd, vtag, rtag, neg) ==
    LET raw == GpsGet(gps_ifd, vtag)
        deg == IF raw.exc # "" THEN raw ELSE convert_to_degrees(raw.v)
        ref == GpsGet(gps_ifd, rtag)
    IN  IF deg.exc # "" THEN deg
        ELSE IF ref.exc # "" THEN ref
        ELSE IF ref.v = neg THEN Ok(FracNeg(deg.v)) ELSE deg

\* alt = gps_ifd[6][0] / gps_ifd[6][1] if 6 in gps_ifd else None
Altitude(gps_ifd) ==
    IF 6 \in DOMAIN gps_ifd
    THEN LET a == IntDiv(gps_ifd[6][1], gps_ifd[6][2])
         IN  IF a.exc # "" THEN a ELSE Ok(PyFloat(a.v))
    ELSE Ok(PyNone)

\* the body of the try block of get_gps_info
GpsBody(gps_ifd) ==
    LET lat == Signed(gps_ifd, 2, 1, "S")
        lon == Signed(gps_ifd, 4, 3, "W")
        alt == Altitude(gps_ifd)
    IN  IF lat.exc # "" THEN lat
        ELSE IF lon.exc # "" THEN lon
        ELSE IF alt.exc # "" THEN alt
        ELSE Ok([latitude |-> lat.v,
                 longitude |-> lon.v,
                 altitude |-> alt.v,
                 google_maps |-> <<"https://www.google.com/maps/search/?api=1&query=",
                                   lat.v, ",", lon.v>>])

\* get_gps_info with an except clause that lets ZeroDivisionError through
get_gps_info_KeyErrorOnly(gps_ifd) ==
    LET r == GpsBody(gps_ifd)
    IN  IF r.exc = "KeyError" THEN Ok(EmptyDict) ELSE r

\* get_gps_info: the bare except turns every exception into {}
get_gps_info(gps_ifd) ==
    LET r == GpsBody(gps_ifd)
    IN  IF r.exc # "" THEN Ok(EmptyDict) ELSE r

\* ------------------------------------------------------ GPS IFD inputs

\* piexif rationals (num, den) of an unsigned RATIONAL tag
Rationals(nums) == {<<n, d>> : n \in nums, d \in 0..MaxDen}

LatTriples == {<<d, m, s>> : d \in Rationals({40, 91}), m \in Rationals({26}),
                             s \in Rationals({46})}
LonTriples == {<<d, m, s>> : d \in Rationals({79, 181}), m \in Rationals({56}),
                             s \in Rationals({55})}
Altitudes == {<<100, 1>>, <<5, 0>>}

\* a GPS IFD as piexif.load returns it: a dict keyed by the GPS tag numbers
\* 1 GPSLatitudeRef, 2 GPSLatitude, 3 GPSLongitudeRef, 4 GPSLongitude,
\* 6 GPSAltitude
GpsIfd(latRef, lat, lonRef, lon) == (1 :> latRef) @@ (2 :> lat) @@ (3 :> lonRef) @@ (4 :> lon)

FullIfds == {GpsIfd(latRef, lat, lonRef, lon) :
                latRef \in {"N", "S"}, lat \in LatTriples,
                lonRef \in {"E", "W"}, lon \in LonTriples}

GpsIfds ==
    FullIfds
    \cup {g @@ (6 :> a) : g \in FullIfds, a \in Altitudes}
    \cup {(6 :> a) : a \in Altitudes}
    \cup {(2 :> <<<<40, 1>>, <<26, 1>>, <<46, 1>>>>) @@ (4 :> <<<<79, 1>>, <<56, 1>>, <<55, 1>>>>)}

\* ------------------------------------------------------- the image

\* bytes are sequences of pieces, each a run of valid UTF-8 or the byte 0xff,
\* which is valid nowhere in UTF-8; b.decode('utf-8', 'ignore') drops the
\* invalid bytes and keeps the text of the rest
IsValidUtf8(piece) == piece # "\\xff"
Decode(bytes) == SelectSeq(bytes, IsValidUtf8)

\* GPS IFDs of the EXIF blocks drawn as input
GpsPittsburgh == GpsIfd("N", <<<<40, 1>>, <<26, 1>>, <<46, 1>>>>,
                        "W", <<<<79, 1>>, <<56, 1>>, <<55, 1>>>>)
GpsZeroDen == GpsIfd("N", <<<<40, 1>>, <<26, 1>>, <<46, 1>>>>,
                     "W", <<<<79, 0>>, <<56, 1>>, <<55, 1>>>>)

ZerothTags == [Make |-> PyBytes(<<"Canon", "\\xff">>), Model |-> PyBytes(<<"EOS">>),
               Orientation |-> PyInt(1)]
ExifTags == [ISOSpeedRatings |-> PyInt(100), FNumber |-> PyTuple(<<28, 10>>),
             DateTimeOriginal |-> PyBytes(<<"2020:01:01 00:00:00">>)]

\* what piexif.load returns: the three IFDs the code reads
ExifDict(zeroth, exif, gps) == ("0th" :> zeroth) @@ ("Exif" :> exif) @@ ("GPS" :> gps)

\* the outcome of piexif.load on the EXIF blocks drawn as input
ExifLoads ==
    { Raise("InvalidImageDataError"),
      Ok(ExifDict(EmptyDict, EmptyDict, EmptyDict)),
      Ok(ExifDict(ZerothTags, ExifTags, EmptyDict)),
      Ok(ExifDict(ZerothTags, ExifTags, GpsPittsburgh)),
      Ok(ExifDict(ZerothTags, ExifTags, GpsZeroDen)),
      Ok(ExifDict([ZerothTags EXCEPT !.Make = PyTuple(<<7, 7>>)], ExifTags, GpsPittsburgh)),
      Ok(ExifDict(ZerothTags, [ExifTags EXCEPT !.DateTimeOriginal = PyTuple(<<7, 7>>)], GpsPittsburgh)) }

\* an embedded ICC block: its byte length and what ImageCms makes of it
IccBlocks ==
    { [len |-> 0, desc |-> Raise("OSError")],
      [len |-> 3, desc |-> Raise("OSError")],
      [len |-> 3, desc |-> Ok(<<>>)],
      [len |-> 3, desc |-> Ok(<<"sRGB", "\\xff">>)] }

\* image.info: the keys the code reads, present only when the block is embedded
Infos ==
    { EmptyDict }
    \cup { ("icc_profile" :> b) : b \in IccBlocks }
    \cup { ("exif" :> e) : e \in ExifLoads }
    \cup { ("icc_profile" :> b) @@ ("exif" :> e) : b \in IccBlocks, e \in ExifLoads }

\* the calls of the hashing block and of the histogram block, in source order
HashCalls == <<[key |-> "perceptual_hash", fn |-> "phash"],
               [key |-> "average_hash", fn |-> "average_hash"],
               [key |-> "difference_hash", fn |-> "dhash"],
               [key |-> "wavelet_hash", fn |-> "whash"]>>
HistCalls == <<[key |-> "", fn |-> "Stat"],
               [key |-> "histogram_mean", fn |-> "mean"],
               [key |-> "histogram_median", fn |-> "median"],
               [key |-> "histogram_stddev", fn |-> "stddev"],
               [key |-> "histogram_rms", fn |-> "rms"],
               [key |-> "histogram_bins", fn |-> "histogram"]>>

\* the outcomes of a block's library calls when call number failAt raises
\* (0: none raises); a call returns a value named after the function
LibOutcomes(callSeq, failAt) ==
    [i \in DOMAIN callSeq |->
        IF i = failAt THEN Raise("OSError") ELSE Ok(PyStr(Text(callSeq[i].fn)))]

\* a decoded image: the container's format, mode and size, image.info, and
\* the outcomes of the imagehash and ImageStat calls on its pixels
Images ==
    [format : {"JPEG"}, mode : {"RGB"}, size : {<<4, 3>>}, info : Infos,
     hashes : {LibOutcomes(HashCalls, k) : k \in 0..Len(HashCalls)},
     stats : {LibOutcomes(HistCalls, k) : k \in 0..Len(HistCalls)}]

NoImage == <<>>

\* ---------------------------------------------------- extract_metadata

\* hasattr(obj, attr): the attributes a stream object has are file.attrs
Hasattr(file, attr) == attr \in file.attrs

\* getattr(image_file, 'name', default)
Getattr(file, attr, default) == IF Hasattr(file, attr) THEN file[attr] ELSE default

\* lines 50-53
BaseFields(img, file) ==
    ("format" :> PyStr(Text(img.format))) @@ ("mode" :> PyStr(Text(img.mode)))
    @@ ("size" :> PyTuple(img.size))
    @@ ("filename" :> PyStr(Text(Getattr(file, "name", "unknown"))))

\* os.fstat(image_file.fileno()).st_size: io.BytesIO has a fileno attribute
\* whose call raises io.UnsupportedOperation
Fstat(file) ==
    IF file.kind = "file" THEN Ok(file.nbytes) ELSE Raise("UnsupportedOperation")

\* hasattr(image_file, 'fileno')
HasFileno(file) == Hasattr(file, "fileno")

\* lines 54-65: the value of file_size_bytes and the stream position left
FileSize(file) ==
    IF HasFileno(file)
    THEN LET st == Fstat(file)
         IN  IF st.exc # "" THEN [size |-> PyNone, pos |-> file.pos]
             ELSE [size |-> PyInt(st.v), pos |-> file.pos]
    ELSE LET current_pos == file.pos
             size == file.nbytes
         IN  [size |-> PyInt(size), pos |-> current_pos]

IccSentinel == "Embedded ICC profile found, could not parse description"

\* lines 67-76: icc_profile = image.info.get('icc_profile'); if icc_profile: ...
IccStage(md, img) ==
    IF "icc_profile" \in DOMAIN img.info /\ img.info["icc_profile"].len > 0
    THEN LET d == img.info["icc_profile"].desc
         IN  IF d.exc # "" THEN Ok(DictSet(md, "icc_profile", PyStr(Text(IccSentinel))))
             ELSE Ok(DictSet(md, "icc_profile", PyStr(Decode(d.v))))
    ELSE Ok(DictSet(md, "icc_profile", PyNone))

\* the assignments of lines 88-103 in source order: key, IFD, tag, and
\* whether the value is .get(tag, b'').decode('utf-8', 'ignore')
ExifEntries ==
    <<[key |-> "camera_make", ifd |-> "0th", tag |-> "Make", decode |-> TRUE],
      [key |-> "camera_model", ifd |-> "0th", tag |-> "Model", decode |-> TRUE],
      [key |-> "iso", ifd |-> "Exif", tag |-> "ISOSpeedRatings", decode |-> FALSE],
      [key |-> "exposure_time", ifd |-> "Exif", tag |-> "ExposureTime", decode |-> FALSE],
      [key |-> "aperture", ifd |-> "Exif", tag |-> "FNumber", decode |-> FALSE],
      [key |-> "focal_length", ifd |-> "Exif", tag |-> "FocalLength", decode |-> FALSE],
      [key |-> "date_taken", ifd |-> "Exif", tag |-> "DateTimeOriginal", decode |-> TRUE],
      [key |-> "shutter_speed", ifd |-> "Exif", tag |-> "ShutterSpeedValue", decode |-> FALSE],
      [key |-> "brightness_value", ifd |-> "Exif", tag |-> "BrightnessValue", decode |-> FALSE],
      [key |-> "white_balance", ifd |-> "Exif", tag |-> "WhiteBalance", decode |-> FALSE],
      [key |-> "metering_mode", ifd |-> "Exif", tag |-> "MeteringMode", decode |-> FALSE],
      [key |-> "lens_model", ifd |-> "Exif", tag |-> "LensModel", decode |-> TRUE],
      [key |-> "exposure_program", ifd |-> "Exif", tag |-> "ExposureProgram", decode |-> FALSE],
      [key |-> "software", ifd |-> "0th", tag |-> "Software", decode |-> TRUE],
      [key |-> "orientation", ifd |-> "0th", tag |-> "Orientation", decode |-> FALSE],
      [key |-> "flash_fired", ifd |-> "Exif", tag |-> "Flash", decode |-> FALSE]>>

\* ifd.get(tag) and ifd.get(tag, b'').decode('utf-8', 'ignore')
ExifValue(ifd, e) ==
    IF e.decode
    THEN LET raw == IF e.tag \in DOMAIN ifd THEN ifd[e.tag] ELSE PyBytes(<<>>)
         IN  IF raw.t = "bytes" THEN Ok(PyStr(Decode(raw.v)))
             ELSE Raise("AttributeError")
    ELSE Ok(IF e.tag \in DOMAIN ifd THEN ifd[e.tag] ELSE PyNone)

\* lines 88-103 from assignment i on: the summary, and the exception that
\* stopped the assignments if one did
RECURSIVE ExifFill(_, _, _)
ExifFill(summary, exif_dict, i) ==
    IF i > Len(ExifEntries) THEN Ok(summary)
    ELSE LET e == ExifEntries[i]
             val == ExifValue(exif_dict[e.ifd], e)
         IN  IF val.exc # "" THEN [exc |-> val.exc, v |-> summary]
             ELSE ExifFill(DictSet(summary, e.key, val.v), exif_dict, i + 1)

NoExifInfo == "No EXIF data found in image."

\* metadata['exif'] = exif_summary; metadata['gps'] = gps_data
WithExif(md, exif_summary, gps_data) ==
    DictSet(DictSet(md, "exif", PyDict(exif_summary)), "gps", PyDict(gps_data))

\* lines 83-106: the EXIF block is there
ExifPresent(md, img) ==
    LET loaded == img.info["exif"]
    IN  IF loaded.exc # ""
        THEN Ok(WithExif(md, [error |-> PyStr(Text(loaded.exc))], EmptyDict))
        ELSE LET filled == ExifFill(EmptyDict, loaded.v, 1)
                 gps_ifd == loaded.v["GPS"]
             IN  IF filled.exc # ""
                 THEN Ok(WithExif(md, DictSet(filled.v, "error", PyStr(Text(filled.exc))),
                                  EmptyDict))
                 ELSE IF DOMAIN gps_ifd # {}
                 THEN LET g == get_gps_info(gps_ifd)
                      IN  IF g.exc # ""
                          THEN Ok(WithExif(md, DictSet(filled.v, "error", PyStr(Text(g.exc))),
                                           EmptyDict))
                          ELSE Ok(WithExif(md, filled.v, g.v))
                 ELSE Ok(WithExif(md, filled.v, EmptyDict))

\* lines 78-113 without the test "exif" in image.info: image.info["exif"]
\* raises KeyError when the block is missing
ExifStage_NoTest(md, img) ==
    IF "exif" \in DOMAIN img.info
    THEN ExifPresent(md, img)
    ELSE Ok(WithExif(md, [error |-> PyStr(Text("KeyError"))], EmptyDict))

\* lines 78-113
ExifStage(md, img) ==
    IF "exif" \in DOMAIN img.info
    THEN ExifPresent(md, img)
    ELSE Ok(WithExif(md, [info |-> PyStr(Text(NoExifInfo))], EmptyDict))

\* the assignments of a try block from call i on: each stores the call's
\* value under its key; the first call that raises ends the block
RECURSIVE RunCalls(_, _, _, _)
RunCalls(md, callSeq, outcomes, i) ==
    IF i > Len(callSeq) THEN Ok(md)
    ELSE IF outcomes[i].exc # "" THEN [exc |-> outcomes[i].exc, v |-> md]
    ELSE RunCalls(IF callSeq[i].key = "" THEN md
                  ELSE DictSet(md, callSeq[i].key, outcomes[i].v),
                  callSeq, outcomes, i + 1)

\* lines 115-122 with the exception propagating
HashStage_NoTry(md, img) ==
    LET r == RunCalls(md, HashCalls, img.hashes, 1)
    IN  IF r.exc # "" THEN Raise(r.exc) ELSE r

\* lines 115-122
HashStage(md, img) ==
    LET r == RunCalls(md, HashCalls, img.hashes, 1)
    IN  IF r.exc # "" THEN Ok(DictSet(r.v, "hashes", PyStr(Text("Unable to compute hashes"))))
        ELSE r

\* lines 124-135
HistStage(md, img) ==
    LET r == RunCalls(md, HistCalls, img.stats, 1)
    IN  IF r.exc # "" THEN Ok(DictSet(r.v, "histogram", PyStr(Text("Unable to compute histogram"))))
        ELSE r

\* lines 47-137 after Image.open: the record extract_metadata returns
extract_metadata(file, img) ==
    LET base == DictSet(BaseFields(img, file), "file_size_bytes", FileSize(file).size)
        icc == IccStage(base, img)
        exif == IF icc.exc # "" THEN icc ELSE ExifStage(icc.v, img)
        hash == IF exif.exc # "" THEN exif ELSE HashStage(exif.v, img)
    IN  IF hash.exc # "" THEN hash ELSE HistStage(hash.v, img)

\* --------------------------------------------------- the /extract endpoint

Upper == <<"A", "B", "C", "D", "E", "F", "G", "H", "I", "J", "K", "L", "M",
           "N", "O", "P", "Q", "R", "S", "T", "U", "V", "W", "X", "Y", "Z">>
Lower == <<"a", "b", "c", "d", "e", "f", "g", "h", "i", "j", "k", "l", "m",
           "n", "o", "p", "q", "r", "s", "t", "u", "v", "w", "x", "y", "z">>

\* str.lower() on a string given as the sequence of its characters
LowerChar(c) ==
    IF \E i \in DOMAIN Upper : Upper[i] = c
    THEN Lower[CHOOSE i \in DOMAIN Upper : Upper[i] = c]
    ELSE c
ToLower(str) == [i \in DOMAIN str |-> LowerChar(str[i])]

\* str.endswith(suffix)
EndsWith(str, suffix) ==
    /\ Len(suffix) <= Len(str)
    /\ SubSeq(str, Len(str) - Len(suffix) + 1, Len(str)) = suffix

\* the tuple of suffixes of line 157
Suffixes == { <<".", "j", "p", "g">>, <<".", "j", "p", "e", "g">>, <<".", "p", "n", "g">>,
              <<".", "w", "e", "b", "p">>, <<".", "t", "i", "f", "f">> }

\* the extension test with the call of lower() left out
AcceptedFilename_CaseSensitive(filename) ==
    \E suffix \in Suffixes : EndsWith(filename, suffix)

\* file.filename.lower().endswith((".jpg", ".jpeg", ".png", ".webp", ".tiff"))
AcceptedFilename(filename) ==
    \E suffix \in Suffixes : EndsWith(ToLower(filename), suffix)

\* the filenames of the uploads drawn as input
Filenames ==
    { <<"a", ".", "J", "P", "G">>, <<"a", ".", "j", "p", "e", "g">>,
      <<"a", ".", "p", "n", "g">>, <<"a", ".", "w", "e", "b", "p">>,
      <<"a", ".", "T", "i", "f", "f">>,
      <<"a", ".", "t", "i", "f">>, <<"a", ".", "g", "i", "f">>, <<"j", "p", "g">>,
      <<"a", ".", "j", "p", "g", ".", "e", "x", "e">>, <<>> }

NoUpload == [filename |-> <<>>, nbytes |-> 0]
NoFile == [kind |-> "none", attrs |-> {}, nbytes |-> 0, pos |-> 0, name |-> ""]
NoResponse == [status |-> 0, body |-> EmptyDict]

\* no request is being served
Idle ==
    /\ pc = "idle"
    /\ entry = "none"
    /\ upload = NoUpload
    /\ image_file = NoFile
    /\ image = NoImage
    /\ metadata = EmptyDict
    /\ reads = 0
    /\ calls = 0
    /\ response = NoResponse

\* ------------------------------------------------------------- actions

\* a POST /extract arrives with one uploaded file
ReceiveUpload ==
    /\ pc = "idle"
    /\ \E fn \in Filenames, n \in 1..MaxBytes : upload' = [filename |-> fn, nbytes |-> n]
    /\ entry' = "http"
    /\ pc' = "check"
    /\ UNCHANGED <<image_file, image, metadata, reads, calls, response, gpsVars>>

\* lines 157-158: raise HTTPException(status_code=400, ...)
RejectExtension ==
    /\ pc = "check"
    /\ ~AcceptedFilename(upload.filename)
    /\ response' = [status |-> 400, body |-> [detail |-> "Unsupported file type."]]
    /\ pc' = "rejected"
    /\ UNCHANGED <<entry, upload, image_file, image, metadata, reads, calls, gpsVars>>

\* line 157: the extension is accepted
AcceptExtension ==
    /\ pc = "check"
    /\ AcceptedFilename(upload.filename)
    /\ pc' = "read"
    /\ UNCHANGED <<entry, upload, image_file, image, metadata, reads, calls, response, gpsVars>>

\* line 159: contents = await file.read()
ReadUpload ==
    /\ pc = "read"
    /\ reads' = reads + 1
    /\ pc' = "call"
    /\ UNCHANGED <<entry, upload, image_file, image, metadata, calls, response, gpsVars>>

\* line 160: extract_metadata(BytesIO(contents))
CallExtract ==
    /\ pc = "call"
    /\ image_file' = [kind |-> "BytesIO", attrs |-> {"fileno"}, nbytes |-> upload.nbytes,
                     pos |-> 0, name |-> ""]
    /\ calls' = calls + 1
    /\ pc' = "open"
    /\ UNCHANGED <<entry, upload, image, metadata, reads, response, gpsVars>>

\* the stream objects of a direct call: an open file (name and a working
\* fileno), and streams without fileno, with and without a name attribute
DirectStreams ==
    { [kind |-> "file", attrs |-> {"name", "fileno"}],
      [kind |-> "stream", attrs |-> {"name"}],
      [kind |-> "stream", attrs |-> {}] }

\* lines 147-148: extract_metadata(f) on an open file, or a call of
\* extract_metadata by an importer with a stream that has no fileno
DirectCall ==
    /\ pc = "idle"
    /\ \E s \in DirectStreams, n \in 1..MaxBytes :
          image_file' = [kind |-> s.kind, attrs |-> s.attrs, nbytes |-> n, pos |-> 0,
                         name |-> IF "name" \in s.attrs THEN "photo.jpg" ELSE ""]
    /\ entry' = "direct"
    /\ calls' = calls + 1
    /\ pc' = "open"
    /\ UNCHANGED <<upload, image, metadata, reads, response, gpsVars>>

\* line 49: Image.open raises on a container it cannot decode
OpenFails ==
    /\ pc = "open"
    /\ pc' = "raised"
    /\ UNCHANGED <<entry, upload, image_file, image, metadata, reads, calls, response, gpsVars>>

\* lines 48-53: Image.open succeeds, leaving the stream somewhere in the file
OpenImage ==
    /\ pc = "open"
    /\ \E img \in Images, p \in 0..image_file.nbytes :
          /\ image' = img
          /\ image_file' = [image_file EXCEPT !.pos = p]
          /\ metadata' = BaseFields(img, image_file)
    /\ pc' = "filesize"
    /\ UNCHANGED <<entry, upload, reads, calls, response, gpsVars>>

\* lines 54-65
FileSizeStep ==
    /\ pc = "filesize"
    /\ LET r == FileSize(image_file)
       IN  /\ metadata' = DictSet(metadata, "file_size_bytes", r.size)
           /\ image_file' = [image_file EXCEPT !.pos = r.pos]
    /\ pc' = "icc"
    /\ UNCHANGED <<entry, upload, image, reads, calls, response, gpsVars>>

\* a block of extract_metadata: an exception it lets through ends the call
Block(r, next) ==
    /\ IF r.exc # ""
       THEN pc' = "raised" /\ UNCHANGED metadata
       ELSE pc' = next /\ metadata' = r.v
    /\ UNCHANGED <<entry, upload, image_file, image, reads, calls, response, gpsVars>>

\* lines 67-76
IccStep == pc = "icc" /\ Block(IccStage(metadata, image), "exif")

\* lines 78-113
ExifStep == pc = "exif" /\ Block(ExifStage(metadata, image), "hash")

\* lines 115-122
HashStep == pc = "hash" /\ Block(HashStage(metadata, image), "hist")

\* lines 124-137
HistStep == pc = "hist" /\ Block(HistStage(metadata, image), "returned")

\* line 161: return JSONResponse(content=metadata)
Respond ==
    /\ pc = "returned"
    /\ entry = "http"
    /\ response' = [status |-> 200, body |-> metadata]
    /\ pc' = "responded"
    /\ UNCHANGED <<entry, upload, image_file, image, metadata, reads, calls, gpsVars>>

\* line 149: print(json.dumps(metadata, indent=4))
PrintRecord ==
    /\ pc = "returned"
    /\ entry = "direct"
    /\ pc' = "printed"
    /\ UNCHANGED <<entry, upload, image_file, image, metadata, reads, calls, response, gpsVars>>

\* the exception of extract_metadata leaves the endpoint: a 500 response
ServerError ==
    /\ pc = "raised"
    /\ entry = "http"
    /\ response' = [status |-> 500, body |-> [detail |-> "Internal Server Error"]]
    /\ pc' = "failed"
    /\ UNCHANGED <<entry, upload, image_file, image, metadata, reads, calls, gpsVars>>

Init ==
    /\ gps_pc = "idle"
    /\ gps_in = EmptyDict
    /\ gps_out = Ok(EmptyDict)
    /\ Idle

Next ==
    \/ ReceiveUpload
    \/ RejectExtension
    \/ AcceptExtension
    \/ ReadUpload
    \/ CallExtract
    \/ DirectCall
    \/ OpenFails
    \/ OpenImage
    \/ FileSizeStep
    \/ IccStep
    \/ ExifStep
    \/ HashStep
    \/ HistStep
    \/ Respond
    \/ PrintRecord
    \/ ServerError

Spec == Init /\ [][Next]_vars

\* extract_metadata called directly, without the endpoint
NextExtract ==
    \/ DirectCall
    \/ OpenFails
    \/ OpenImage
    \/ FileSizeStep
    \/ IccStep
    \/ ExifStep
    \/ HashStep
    \/ HistStep
    \/ PrintRecord

SpecExtract == Init /\ [][NextExtract]_vars

\* ------------------------------------------- specification of get_gps_info

InitGps ==
    /\ gps_pc = "idle"
    /\ gps_in \in GpsIfds
    /\ gps_out = Ok(EmptyDict)
    /\ Idle

\* a call get_gps_info(gps_in)
GpsCall ==
    /\ gps_pc = "idle"
    /\ gps_pc' = "called"
    /\ gps_out' = get_gps_info(gps_in)
    /\ UNCHANGED <<gps_in, reqVars>>

NextGps == GpsCall

SpecGps == InitGps /\ [][NextGps]_vars

\* ------------------------------------------------- claims on get_gps_info

HasKeys(g, ks) == ks \subseteq DOMAIN g
NoZeroDen(t) == \A i \in 1..3 : t[i][2] # 0
SomeZeroDen(t) == \E i \in 1..3 : t[i][2] = 0
Returned == gps_pc = "called" /\ gps_out.exc = "" /\ DOMAIN gps_out.v # {}

FromInt(i) == <<i, 1>>
InRange(f, bound) == FracLeq(FromInt(-bound), f) /\ FracLeq(f, FromInt(bound))

\* C4: every coordinate get_gps_info returns has latitude in [-90, 90] and
\* longitude in [-180, 180]; an IFD converting to a value outside is rejected.
C4_RangeChecked ==
    Returned => /\ InRange(gps_out.v.latitude, 90)
                /\ InRange(gps_out.v.longitude, 180)

\* C5 as stated: a zero denominator in one coordinate's rationals is confined
\* to that coordinate: no exception escapes and the other coordinate, whose
\* rationals are well formed, is still returned.
C5_Confined ==
    (gps_pc = "called" /\ HasKeys(gps_in, {1, 2, 3, 4}) /\ 6 \notin DOMAIN gps_in) =>
        /\ gps_out.exc = ""
        /\ (NoZeroDen(gps_in[2]) /\ SomeZeroDen(gps_in[4]) => "latitude" \in DOMAIN gps_out.v)
        /\ (NoZeroDen(gps_in[4]) /\ SomeZeroDen(gps_in[2]) => "longitude" \in DOMAIN gps_out.v)

\* C5 amended: a zero denominator in any rational of GPSLatitude or
\* GPSLongitude makes get_gps_info return the empty dict (no latitude, no
\* longitude, no altitude), and no exception escapes.
C5_ZeroDenEmpty ==
    (gps_pc = "called" /\ HasKeys(gps_in, {2, 4})
        /\ (SomeZeroDen(gps_in[2]) \/ SomeZeroDen(gps_in[4]))) =>
        /\ gps_out.exc = ""
        /\ DOMAIN gps_out.v = {}

C5_Witness ==
    /\ gps_pc = "called"
    /\ HasKeys(gps_in, {1, 2, 3, 4})
    /\ NoZeroDen(gps_in[2])
    /\ gps_in[4][1][2] = 0
    /\ gps_out.exc = ""
    /\ DOMAIN gps_out.v = {}

\* the IFD with the hemisphere refs exchanged: N <-> S, E <-> W
FlipRef(r) == CASE r = "N" -> "S" [] r = "S" -> "N" [] r = "E" -> "W" [] r = "W" -> "E"
Flipped(g) == [k \in DOMAIN g |-> IF k \in {1, 3} THEN FlipRef(g[k]) ELSE g[k]]

WellFormed(g) ==
    /\ HasKeys(g, {1, 2, 3, 4})
    /\ NoZeroDen(g[2])
    /\ NoZeroDen(g[4])
    /\ (6 \in DOMAIN g => g[6][2] # 0)

\* C6: with non-zero denominators, the latitude returned with ref S is the
\* negation of the one returned with ref N for the same triple, and the
\* longitude with ref W the negation of the one with ref E.
C6_SignSymmetry ==
    (gps_pc = "called" /\ WellFormed(gps_in)) =>
        LET other == get_gps_info(Flipped(gps_in))
        IN  /\ Returned
            /\ other.exc = "" /\ DOMAIN other.v # {}
            /\ gps_out.v.latitude = FracNeg(other.v.latitude)
            /\ gps_out.v.longitude = FracNeg(other.v.longitude)
            /\ Abs(gps_out.v.latitude[1]) = Abs(other.v.latitude[1])
            /\ Abs(gps_out.v.longitude[1]) = Abs(other.v.longitude[1])

C6_Witness ==
    /\ Returned
    /\ WellFormed(gps_in)
    /\ gps_in[1] = "S" /\ gps_in[3] = "W"
    /\ gps_in[2][1][2] = 2
    /\ gps_out.v.latitude[1] < 0
    /\ gps_out.v.longitude[1] < 0

\* f = sgn * (d_num/d_den + (m_num/m_den)/60 + (s_num/s_den)/3600), the sum
\* brought over the common denominator d_den * m_den * s_den * 3600
IsDegrees(f, t, sgn) ==
    LET den == t[1][2] * t[2][2] * t[3][2] * 3600
        num == t[1][1] * t[2][2] * t[3][2] * 3600
               + t[2][1] * t[1][2] * t[3][2] * 60
               + t[3][1] * t[1][2] * t[2][2]
    IN  f = Frac(sgn * num, den)

\* the decimal expansion of f cut after four places, times 10^4
Places4(f) == (Abs(f[1]) * 10000) \div f[2]

\* C7: the degrees get_gps_info returns are d + m/60 + s/3600 of the triple's
\* rationals (negated for S and W); (40,1)(26,1)(46,1) N gives 40.4461 and
\* (79,1)(56,1)(55,1) W gives -79.9486.
C7_DecimalDegrees ==
    (gps_pc = "called" /\ WellFormed(gps_in)) =>
        /\ Returned
        /\ IsDegrees(gps_out.v.latitude, gps_in[2], IF gps_in[1] = "S" THEN -1 ELSE 1)
        /\ IsDegrees(gps_out.v.longitude, gps_in[4], IF gps_in[3] = "W" THEN -1 ELSE 1)
        /\ (gps_in[2] = <<<<40, 1>>, <<26, 1>>, <<46, 1>>>> /\ gps_in[1] = "N" =>
                /\ gps_out.v.latitude = <<72803, 1800>>
                /\ Places4(gps_out.v.latitude) = 404461)
        /\ (gps_in[4] = <<<<79, 1>>, <<56, 1>>, <<55, 1>>>> /\ gps_in[3] = "W" =>
                /\ gps_out.v.longitude = <<-57563, 720>>
                /\ Places4(gps_out.v.longitude) = 799486)

C7_Witness ==
    /\ Returned
    /\ gps_in[2] = <<<<40, 1>>, <<26, 1>>, <<46, 1>>>> /\ gps_in[1] = "N"
    /\ gps_in[4] = <<<<79, 1>>, <<56, 1>>, <<55, 1>>>> /\ gps_in[3] = "W"
    /\ gps_out.v.latitude = <<72803, 1800>>
    /\ gps_out.v.longitude = <<-57563, 720>>

\* ------------------------------------------- claims on extract_metadata

IccFields == {"icc_profile"}
ExifFields == {"exif", "gps"}
HashFields == {"perceptual_hash", "average_hash", "difference_hash", "wavelet_hash"}
HistFields == {"histogram_mean", "histogram_median", "histogram_stddev",
               "histogram_rms", "histogram_bins"}
OptionalFields == IccFields \cup ExifFields \cup HashFields \cup HistFields

\* the analyzers that fail on an image, read off the image itself
IccFailed(info) ==
    /\ "icc_profile" \in DOMAIN info
    /\ info["icc_profile"].len > 0
    /\ info["icc_profile"].desc.exc # ""
DecodedTags == {<<"0th", "Make">>, <<"0th", "Model">>, <<"0th", "Software">>,
                <<"Exif", "DateTimeOriginal">>, <<"Exif", "LensModel">>}
ExifCorrupt(info) == "exif" \in DOMAIN info /\ info["exif"].exc # ""
ExifFailed(info) ==
    /\ "exif" \in DOMAIN info
    /\ \/ info["exif"].exc # ""
       \/ \E d \in DecodedTags : LET ifd == info["exif"].v[d[1]]
                                 IN  d[2] \in DOMAIN ifd /\ ifd[d[2]].t # "bytes"
       \/ LET g == info["exif"].v["GPS"]
          IN  DOMAIN g # {} /\ (~HasKeys(g, {1, 2, 3, 4})
                                \/ SomeZeroDen(g[2]) \/ SomeZeroDen(g[4]))
AnyRaises(outcomes) == \E i \in DOMAIN outcomes : outcomes[i].exc # ""

\* the images of the run where no analyzer fails: each analyzer that fails on
\* img gets an input on which it succeeds, each other analyzer the input it
\* has in img
SameBlock(a, b, key) ==
    /\ (key \in DOMAIN a) = (key \in DOMAIN b)
    /\ (key \in DOMAIN a => a[key] = b[key])
NoFailInfos == { i \in Infos : ~IccFailed(i) /\ ~ExifFailed(i) }
NoFailImages(img) ==
    { [img EXCEPT !.info = inf, !.hashes = h, !.stats = st] :
        inf \in { i \in NoFailInfos :
                    /\ (~IccFailed(img.info) => SameBlock(i, img.info, "icc_profile"))
                    /\ (~ExifFailed(img.info) => SameBlock(i, img.info, "exif")) },
        h \in IF AnyRaises(img.hashes) THEN {LibOutcomes(HashCalls, 0)} ELSE {img.hashes},
        st \in IF AnyRaises(img.stats) THEN {LibOutcomes(HistCalls, 0)} ELSE {img.stats} }

\* the fields of the analyzers that do not fail on img
IntactFields(img) ==
    (IF IccFailed(img.info) THEN {} ELSE IccFields)
    \cup (IF ExifFailed(img.info) THEN {} ELSE ExifFields)
    \cup (IF AnyRaises(img.hashes) THEN {} ELSE HashFields)
    \cup (IF AnyRaises(img.stats) THEN {} ELSE HistFields)

\* C1: whichever analyzers fail, extract_metadata returns a record whose
\* fields of the analyzers that did not fail are those of the run where no
\* analyzer fails; a corrupt EXIF block gives an error-carrying exif field
\* while format, size and the histogram fields stay populated.
C1_FailureIsolation ==
    /\ (pc = "raised" => image = NoImage)
    /\ (pc = "returned" =>
          /\ \A ref \in NoFailImages(image) :
                LET full == extract_metadata(image_file, ref)
                IN  /\ full.exc = ""
                    /\ \A k \in IntactFields(image) :
                          /\ k \in DOMAIN metadata
                          /\ k \in DOMAIN full.v
                          /\ PyEq(metadata[k], full.v[k])
          /\ (ExifCorrupt(image.info) =>
                /\ "error" \in DOMAIN metadata["exif"].v
                /\ {"format", "size"} \subseteq DOMAIN metadata
                /\ (~AnyRaises(image.stats) => HistFields \subseteq DOMAIN metadata)))

C1_Witness ==
    /\ pc = "returned"
    /\ ExifCorrupt(image.info)
    /\ IccFailed(image.info)
    /\ AnyRaises(image.hashes)
    /\ ~AnyRaises(image.stats)
    /\ "error" \in DOMAIN metadata["exif"].v
    /\ HistFields \subseteq DOMAIN metadata
    /\ NoFailImages(image) # {}

\* C2: every record returned carries format, size and the file size in
\* bytes, equal to the byte length of the input, for files and for in-memory
\* streams alike.
C2_FileSizeCarried ==
    pc = "returned" =>
        /\ {"format", "size", "file_size_bytes"} \subseteq DOMAIN metadata
        /\ PyEq(metadata["file_size_bytes"], PyInt(image_file.nbytes))

\* C3: every record returned holds every optional field as a key, whichever
\* analyzer failed and wherever it failed.
C3_AllOptionalPresent ==
    pc = "returned" => OptionalFields \subseteq DOMAIN metadata

\* C8: icc_profile is None exactly when no ICC block is embedded, the
\* "could not parse" sentinel when an embedded block does not parse, and the
\* description when it does.
C8_IccThreeStates ==
    pc = "returned" =>
        LET embedded == "icc_profile" \in DOMAIN image.info
            v == metadata["icc_profile"]
        IN  /\ (~embedded => v.t = "None")
            /\ (embedded => v.t = "str")
            /\ (embedded /\ image.info["icc_profile"].desc.exc # ""
                    => PyEq(v, PyStr(Text(IccSentinel))))
            /\ (embedded /\ image.info["icc_profile"].desc.exc = ""
                    => PyEq(v, PyStr(Decode(image.info["icc_profile"].desc.v))))

\* C9 as stated: with no EXIF block the exif field has no entries and gps is
\* empty.
C9_EmptyTagTable ==
    (pc = "returned" /\ "exif" \notin DOMAIN image.info) =>
        /\ DOMAIN metadata["exif"].v = {}
        /\ DOMAIN metadata["gps"].v = {}

\* C9 amended: with no EXIF block the exif field holds no tag and no "error"
\* entry, only the note "info" = "No EXIF data found in image.", and gps is
\* empty.
C9_NoExifNote ==
    (pc = "returned" /\ "exif" \notin DOMAIN image.info) =>
        /\ DOMAIN metadata["exif"].v = {"info"}
        /\ PyEq(metadata["exif"].v["info"], PyStr(<<"No EXIF data found in image.">>))
        /\ DOMAIN metadata["gps"].v = {}

C9_Witness ==
    /\ pc = "returned"
    /\ "exif" \notin DOMAIN image.info
    /\ DOMAIN metadata["exif"].v = {"info"}
    /\ DOMAIN metadata["gps"].v = {}

\* ---------------------------------------------------- claims on /extract

\* the text after the last "." of a filename, lower-cased; "" without a "."
RECURSIVE LastDot(_, _)
LastDot(str, i) == IF i = 0 THEN 0 ELSE IF str[i] = "." THEN i ELSE LastDot(str, i - 1)
Extension(str) ==
    LET i == LastDot(str, Len(str))
    IN  IF i = 0 THEN <<>> ELSE ToLower(SubSeq(str, i + 1, Len(str)))
AcceptedExtensions == { <<"j", "p", "g">>, <<"j", "p", "e", "g">>, <<"p", "n", "g">>,
                        <<"w", "e", "b", "p">>, <<"t", "i", "f", "f">> }
Checked == entry = "http" /\ pc # "check"

\* C10: an upload whose extension is not an accepted one is answered 400
\* before it is read and before extract_metadata is invoked; an upload with
\* an accepted extension is read, extract_metadata is invoked once, and the
\* record it returns is the response.
C10_ExtensionGate ==
    /\ reads <= 1 /\ calls <= 1 /\ calls <= reads + (IF entry = "direct" THEN 1 ELSE 0)
    /\ (Checked /\ Extension(upload.filename) \notin AcceptedExtensions =>
          /\ pc = "rejected"
          /\ response.status = 400
          /\ reads = 0 /\ calls = 0)
    /\ (Checked /\ Extension(upload.filename) \in AcceptedExtensions =>
          /\ pc # "rejected"
          /\ (pc \in {"responded", "failed"} => reads = 1 /\ calls = 1)
          /\ (pc = "responded" => response.status = 200 /\ response.body = metadata)
          /\ (pc = "failed" => image = NoImage))

C10_Witness ==
    /\ pc = "responded"
    /\ upload.filename = <<"a", ".", "J", "P", "G">>
    /\ calls = 1
    /\ response.body = metadata

====
